---- MODULE Spec2Model ----
(***************************************************************************)
(* The imposition engine impose8up (src/src/app/imposition/page.tsx,       *)
(* lines 830-994) and the POST route handler that drives it                *)
(* (src/unnamed/part_000), from the form data of the request on.          *)
(*                                                                         *)
(* A run is modelled statement by statement: the flatten loop handles one  *)
(* input file per step, the chunk loop adds one sheet per step and the     *)
(* inner loop draws one page per step.  Numbers of the geometry are exact  *)
(* rationals <<numerator, denominator>>.                                   *)
(***************************************************************************)
EXTENDS Integers, Sequences, FiniteSets, TLC

VARIABLES caller, form, inputs, options, pc, pos, bad, allPages, loaded,
          out, i, j, embeddedMap, consumedByDoc, result, exception,
          response, prev,
          version, ui, submissions, event

vars == <<caller, form, inputs, options, pc, pos, bad, allPages, loaded,
          out, i, j, embeddedMap, consumedByDoc, result, exception,
          response, prev, version, ui, submissions, event>>

\* the state of the upload route and of the engine
serverVars == <<caller, form, inputs, options, pc, pos, bad, allPages, loaded,
                out, i, j, embeddedMap, consumedByDoc, result, exception,
                response, prev>>

\* the state of the page component in the browser
clientVars == <<version, ui, submissions, event>>

(***************************************************************************)
(* Bounds of the model.                                                    *)
(***************************************************************************)
\* longest freely chosen list of input files
MaxFiles == 3
\* number of rejected files appended to a list to reach the bad-file cap
BadPad == 50
\* longest freely chosen list that the rejected files are appended to
MaxPadded == 2

\* the selections and drops of a user
MaxAdds == 2

\* the single-file removals of a user
MaxRemoves == 1

\* the submissions of a user
MaxSubmits == 2

(***************************************************************************)
(* Exact rational arithmetic.                                              *)
(***************************************************************************)
Abs(n) == IF n < 0 THEN -n ELSE n

RECURSIVE GCD(_, _)
GCD(a, b) == IF b = 0 THEN a ELSE GCD(b, a % b)

RNorm(n, d) ==
    LET g == GCD(Abs(n), Abs(d))
        s == IF d < 0 THEN -1 ELSE 1
    IN  <<(s * n) \div g, (s * d) \div g>>

RInt(n) == <<n, 1>>

RAdd(a, b) ==
    LET g == GCD(a[2], b[2])
    IN  RNorm(a[1] * (b[2] \div g) + b[1] * (a[2] \div g), (a[2] \div g) * b[2])

RNeg(a) == <<-a[1], a[2]>>

RSub(a, b) == RAdd(a, RNeg(b))

RMul(a, b) ==
    LET g1 == GCD(Abs(a[1]), b[2])
        g2 == GCD(Abs(b[1]), a[2])
    IN  IF a[1] = 0 \/ b[1] = 0 THEN <<0, 1>>
        ELSE <<(a[1] \div g1) * (b[1] \div g2), (a[2] \div g2) * (b[2] \div g1)>>

\* b is not zero
RDiv(a, b) == RMul(a, RNorm(b[2], b[1]))

RLe(a, b) ==
    LET g == GCD(a[2], b[2])
    IN  a[1] * (b[2] \div g) <= b[1] * (a[2] \div g)

\* variant: the larger of the two
RMin_Larger(a, b) == IF RLe(a, b) THEN b ELSE a

RMin(a, b) == IF RLe(a, b) THEN a ELSE b

(***************************************************************************)
(* Program constants.                                                      *)
(***************************************************************************)
PAPER_SIZES == [A4 |-> <<595, 842>>, A3 |-> <<842, 1191>>]

\* 72 / 25.4
MM_TO_PT == <<360, 127>>

MIN_PDF_BYTES == 1024

\* %PDF-
PDF_MAGIC == <<37, 80, 68, 70, 45>>

BAD_FILES_CAP == 50

MAX_FILES == 800

MAX_FILE_SIZE == 100 * 1024 * 1024

BadHeaderReason == "Not a valid PDF (bad header or too small)"

ZeroPagesReason == "0 pages"

NoValidPdfError == "Aucun PDF valide n'a pu être ouvert."

(***************************************************************************)
(* Values that stand for "no value".                                       *)
(***************************************************************************)
Undefined == [undefined |-> TRUE]

NoMap == <<>>

(***************************************************************************)
(* Input files.  A buffer is its byteLength and its first bytes; what the  *)
(* parser does with the buffer (throws, or yields pages of given sizes)    *)
(* is a property of the file.  The name of a file is its number in the     *)
(* list it was first supplied in.                                          *)
(***************************************************************************)
Portrait == <<595, 842>>

Landscape == <<842, 595>>

Square == <<200, 200>>

PageSizes == <<Portrait, Landscape, Square>>

\* k pages whose sizes cycle through PageSizes
Pages(k) == [n \in 1..k |-> PageSizes[((n - 1) % 3) + 1]]

Parsed(k) == [throws |-> FALSE, thrown |-> Undefined, pages |-> Pages(k)]

ParseError(msg) ==
    [throws |-> TRUE, thrown |-> [isError |-> TRUE, message |-> msg], pages |-> <<>>]

ParseThrowsValue(v) ==
    [throws |-> TRUE, thrown |-> [isError |-> FALSE, value |-> v], pages |-> <<>>]

Buffer(n, head) == [byteLength |-> n, head |-> head]

FileKinds == {"small", "magic", "broken", "empty", "one", "eight"}

File(kind, name) ==
    CASE kind = "small"  -> [name |-> name, data |-> Buffer(1023, PDF_MAGIC), parse |-> Parsed(1)]
      [] kind = "magic"  -> [name |-> name, data |-> Buffer(2048, <<37, 80, 68, 70, 49>>), parse |-> Parsed(2)]
      [] kind = "broken" -> [name |-> name, data |-> Buffer(4096, PDF_MAGIC),
                             parse |-> ParseError("Failed to parse PDF document")]
      [] kind = "empty"  -> [name |-> name, data |-> Buffer(1500, PDF_MAGIC), parse |-> Parsed(0)]
      [] kind = "one"    -> [name |-> name, data |-> Buffer(1024, PDF_MAGIC), parse |-> Parsed(1)]
      [] kind = "eight"  -> [name |-> name, data |-> Buffer(90000, PDF_MAGIC), parse |-> Parsed(8)]
      [] kind = "full"   -> [name |-> name, data |-> Buffer(MAX_FILE_SIZE, PDF_MAGIC), parse |-> Parsed(2)]
      [] kind = "huge"   -> [name |-> name, data |-> Buffer(MAX_FILE_SIZE + 1, PDF_MAGIC), parse |-> Parsed(1)]

\* the n-th padding file: one of the five magic bytes is wrong, or the
\* buffer is too small, or the parser throws a value that is not an Error
PadFile(n, name) ==
    LET v == n % 8
    IN  CASE v < 5 -> [name |-> name,
                       data |-> Buffer(5000, [k \in 1..5 |-> IF k = v + 1 THEN 0 ELSE PDF_MAGIC[k]]),
                       parse |-> Parsed(1)]
          [] v = 5 -> [name |-> name, data |-> Buffer(3, <<37, 80, 68>>), parse |-> Parsed(1)]
          [] v = 6 -> [name |-> name, data |-> Buffer(0, <<>>), parse |-> Parsed(1)]
          [] v = 7 -> [name |-> name, data |-> Buffer(1024, PDF_MAGIC), parse |-> ParseThrowsValue(7)]

KindLists == UNION {[1..n -> FileKinds] : n \in 0..MaxFiles}

\* the files of the kinds ks, followed by pad padding files
InputList(ks, pad) ==
    [n \in 1..(Len(ks) + pad) |->
        IF n <= Len(ks) THEN File(ks[n], n) ELSE PadFile(n - Len(ks), n)]

InputLists ==
    {InputList(ks, 0) : ks \in KindLists}
        \cup {InputList(ks, BadPad) : ks \in {l \in KindLists : Len(l) <= MaxPadded}}

OptionSet ==
    { [paper |-> "A4", orientation |-> "landscape", layout |-> "4x2", margin_mm |-> 6, gap_mm |-> 3],
      [paper |-> "A3", orientation |-> "portrait", layout |-> "2x4", margin_mm |-> 0, gap_mm |-> 10] }

(***************************************************************************)
(* Form data of a request.  A field is absent or holds a text.             *)
(***************************************************************************)
Absent == [present |-> FALSE, text |-> ""]

Field(text) == [present |-> TRUE, text |-> text]

\* String(n) for the numbers the client page sends
NumberText(n) ==
    CASE n = 0 -> "0" [] n = 3 -> "3" [] n = 6 -> "6" [] n = 10 -> "10"

\* the request the client page (lines 465-470) sends for the options o
FormOf(o) ==
    [paper |-> Field(o.paper), orientation |-> Field(o.orientation),
     layout |-> Field(o.layout), margin_mm |-> Field(NumberText(o.margin_mm)),
     gap_mm |-> Field(NumberText(o.gap_mm))]

NoForm == [sent |-> FALSE]

NoOptions == [built |-> FALSE]

(***************************************************************************)
(* Values of the run that do not exist yet.                                *)
(***************************************************************************)
NoResult == [returned |-> FALSE]

NoException == [raised |-> FALSE]

NoResponse == [status |-> 0]

NoPrev == [ran |-> FALSE]

NoDocument == [created |-> FALSE, pages |-> <<>>]

(***************************************************************************)
(* isProbablyPdf                                                           *)
(***************************************************************************)
\* buffer[k], undefined beyond the end of the buffer
ByteAt(buffer, k) ==
    IF k < Len(buffer.head) THEN buffer.head[k + 1] ELSE -1

\* variant: the last byte of the magic is not compared
isProbablyPdf_FourBytes(buffer) ==
    IF buffer.byteLength < MIN_PDF_BYTES THEN FALSE
    ELSE /\ ByteAt(buffer, 0) = PDF_MAGIC[1]
         /\ ByteAt(buffer, 1) = PDF_MAGIC[2]
         /\ ByteAt(buffer, 2) = PDF_MAGIC[3]
         /\ ByteAt(buffer, 3) = PDF_MAGIC[4]

isProbablyPdf(buffer) ==
    IF buffer.byteLength < MIN_PDF_BYTES THEN FALSE
    ELSE /\ ByteAt(buffer, 0) = PDF_MAGIC[1]
         /\ ByteAt(buffer, 1) = PDF_MAGIC[2]
         /\ ByteAt(buffer, 2) = PDF_MAGIC[3]
         /\ ByteAt(buffer, 3) = PDF_MAGIC[4]
         /\ ByteAt(buffer, 4) = PDF_MAGIC[5]

(***************************************************************************)
(* Geometry of a run (lines 880-889) and of one placement (954-974).       *)
(***************************************************************************)
\* variant: the orientation is ignored
SheetSize_NoSwap(o) == PAPER_SIZES[o.paper]

SheetSize(o) ==
    LET p == PAPER_SIZES[o.paper]
    IN  IF o.orientation = "landscape" THEN <<p[2], p[1]>> ELSE p

Grid(o) == IF o.layout = "4x2" THEN <<4, 2>> ELSE <<2, 4>>

Cols(o) == Grid(o)[1]

Rows(o) == Grid(o)[2]

Margin(o) == RMul(RInt(o.margin_mm), MM_TO_PT)

Gap(o) == RMul(RInt(o.gap_mm), MM_TO_PT)

\* variant: a gap is counted for every column
CellW_AllGaps(o) ==
    RDiv(RSub(RSub(RInt(SheetSize(o)[1]), RMul(RInt(2), Margin(o))),
              RMul(RInt(Cols(o)), Gap(o))),
         RInt(Cols(o)))

CellW(o) ==
    RDiv(RSub(RSub(RInt(SheetSize(o)[1]), RMul(RInt(2), Margin(o))),
              RMul(RInt(Cols(o) - 1), Gap(o))),
         RInt(Cols(o)))

CellH(o) ==
    RDiv(RSub(RSub(RInt(SheetSize(o)[2]), RMul(RInt(2), Margin(o))),
              RMul(RInt(Rows(o) - 1), Gap(o))),
         RInt(Rows(o)))

PerSheet(o) == Cols(o) * Rows(o)

\* variant: the row is found with the number of rows
CellRow_ByRows(o, jj) == jj \div Rows(o)

CellRow(o, jj) == jj \div Cols(o)

CellCol(o, jj) == jj % Cols(o)

\* variant: the columns are not separated by the gap
CellX_NoGap(o, jj) ==
    RAdd(Margin(o), RMul(RInt(CellCol(o, jj)), CellW(o)))

CellX(o, jj) ==
    RAdd(Margin(o), RMul(RInt(CellCol(o, jj)), RAdd(CellW(o), Gap(o))))

CellY(o, jj) ==
    RSub(RSub(RSub(RInt(SheetSize(o)[2]), Margin(o)),
              RMul(RInt(CellRow(o, jj) + 1), CellH(o))),
         RMul(RInt(CellRow(o, jj)), Gap(o)))

\* the embedded page ep drawn into cell jj: what sheet.drawPage receives
\* variant: the page is stretched to the cell
Placement_Stretch(o, jj, ep) ==
    [page |-> ep, x |-> CellX(o, jj), y |-> CellY(o, jj),
     width |-> CellW(o), height |-> CellH(o)]

\* variant: the scaled page is put at the origin of the cell
Placement_Corner(o, jj, ep) ==
    LET srcW    == RInt(ep.width)
        srcH    == RInt(ep.height)
        scale   == RMin(RDiv(CellW(o), srcW), RDiv(CellH(o), srcH))
    IN  [page |-> ep, x |-> CellX(o, jj), y |-> CellY(o, jj),
         width |-> RMul(srcW, scale), height |-> RMul(srcH, scale)]

Placement(o, jj, ep) ==
    LET srcW    == RInt(ep.width)
        srcH    == RInt(ep.height)
        scale   == RMin(RDiv(CellW(o), srcW), RDiv(CellH(o), srcH))
        scaledW == RMul(srcW, scale)
        scaledH == RMul(srcH, scale)
        offsetX == RAdd(CellX(o, jj), RDiv(RSub(CellW(o), scaledW), RInt(2)))
        offsetY == RAdd(CellY(o, jj), RDiv(RSub(CellH(o), scaledH), RInt(2)))
    IN  [page |-> ep, x |-> offsetX, y |-> offsetY, width |-> scaledW, height |-> scaledH]

(***************************************************************************)
(* Array and Map helpers.                                                  *)
(***************************************************************************)
\* s.slice(from, to), 0-based, to excluded and clipped to the length
Slice(s, from, to) ==
    SubSeq(s, from + 1, IF to < Len(s) THEN to ELSE Len(s))

\* String(v) for the values a parser may throw
String(v) == <<"0", "1", "2", "3", "4", "5", "6", "7", "8", "9">>[v + 1]

\* e instanceof Error ? e.message : String(e)
ErrorText(e) == IF e.isError THEN e.message ELSE String(e.value)

BadFile(file, reason) == [path |-> file.name, error |-> reason]

\* variant: the list is returned whole
CappedBad_Whole(b) == b

\* bad.slice(0, 50)
CappedBad(b) == Slice(b, 0, BAD_FILES_CAP)

\* variant: the pages are pushed from the last to the first
PagesOfDoc_Reversed(d, count) == [n \in 1..count |-> [doc |-> d, pageIndex |-> count - n]]

\* the pages pushed for the document loaded from input number d
PagesOfDoc(d, count) == [n \in 1..count |-> [doc |-> d, pageIndex |-> n - 1]]

\* variant: the slice ends one page early
Chunk_Short(pages, from, o) == Slice(pages, from, from + PerSheet(o) - 1)

\* allPages.slice(i, i + perSheet)
Chunk(pages, from, o) == Slice(pages, from, from + PerSheet(o))

\* lines 935-939: the page indices needed from each document of the chunk,
\* in chunk order
RECURSIVE NeededByDoc(_)
NeededByDoc(chunk) ==
    IF chunk = <<>> THEN NoMap
    ELSE LET before == NeededByDoc(SubSeq(chunk, 1, Len(chunk) - 1))
             last   == chunk[Len(chunk)]
             soFar  == IF last.doc \in DOMAIN before THEN before[last.doc] ELSE <<>>
         IN  [d \in DOMAIN before \cup {last.doc} |->
                IF d = last.doc THEN Append(soFar, last.pageIndex) ELSE before[d]]

\* out.embedPages([doc.getPage(idx)]): the embedded page keeps the identity
\* and the size of the source page
EmbedPage(files, d, idx) ==
    LET size == files[d].parse.pages[idx + 1]
    IN  [doc |-> d, pageIndex |-> idx, width |-> size[1], height |-> size[2]]

\* lines 942-947
EmbedChunk(files, chunk) ==
    LET needed == NeededByDoc(chunk)
    IN  [d \in DOMAIN needed |->
            [n \in 1..Len(needed[d]) |-> EmbedPage(files, d, needed[d][n])]]

\* consumedByDoc.get(doc) || 0
Consumed(map, d) == IF d \in DOMAIN map THEN map[d] ELSE 0

\* variant: the counter is stored without the increment
Consume_Stuck(map, d) ==
    [k \in DOMAIN map \cup {d} |-> IF k = d THEN Consumed(map, d) ELSE map[k]]

\* consumedByDoc.set(doc, consumed + 1)
Consume(map, d) ==
    [k \in DOMAIN map \cup {d} |-> IF k = d THEN Consumed(map, d) + 1 ELSE map[k]]

(***************************************************************************)
(* The page component: the React state of ImpositionPage and the files     *)
(* a user can pick or drop.  The file holds two versions of the component: *)
(* the earlier one replaces the list on a selection, the current one       *)
(* appends to it and accepts drops.                                        *)
(***************************************************************************)
MAX_SELECTED == 800

Versions == {"earlier", "current"}

TooManyMessage == "Maximum 800 fichiers autorisés."

NetworkErrorMessage == "Erreur réseau."

ProcessingErrorMessage == "Erreur lors du traitement."

\* a File of the browser: its name, cut at the last dot, and its MIME type
BrowserFile(stem, n, ext, type) ==
    [name |-> [stem |-> stem, n |-> n, ext |-> ext], type |-> type]

\* name.endsWith(suffix), for a suffix that is an extension
EndsWith(name, suffix) == name.ext = suffix

IsPdf(f) == f.type = "application/pdf" \/ EndsWith(f.name, ".pdf")

\* n files of a folder, all PDF
Bulk(n) == [k \in 1..n |-> BrowserFile("lot", k, ".pdf", "application/pdf")]

OnePdf == <<BrowserFile("a", 0, ".pdf", "application/pdf")>>

\* a text file, a PDF known by its name only, a PDF known by its type only,
\* and a file with an upper-case extension and no type
MixedFiles ==
    << BrowserFile("notes", 0, ".txt", "text/plain"),
       BrowserFile("b", 0, ".pdf", ""),
       BrowserFile("c", 0, ".PDF", "application/pdf"),
       BrowserFile("d", 0, ".PDF", "") >>

NoPdfFiles == <<BrowserFile("notes", 0, ".txt", "text/plain")>>

\* what a user selects in the file picker
PickedLists == {OnePdf, MixedFiles, NoPdfFiles, Bulk(MAX_SELECTED - 1), Bulk(MAX_SELECTED + 1)}

\* what a user drops on the drop zone
DroppedLists == {OnePdf, MixedFiles, Bulk(MAX_SELECTED - 1)}

NoResultInfo == [set |-> FALSE]

ResultInfo(pages, sheets) == [set |-> TRUE, pages |-> pages, sheets |-> sheets]

\* the state after useState: no file, status idle
InitialState ==
    [files |-> <<>>, status |-> "idle", statusMessage |-> "", errorMessage |-> "",
     badFiles |-> <<>>, totalBad |-> 0, resultInfo |-> NoResultInfo]

\* the last handler that ran, and the file list it found
NoEvent == [kind |-> "none", before |-> <<>>, index |-> 0, given |-> <<>>,
            adds |-> 0, removes |-> 0]

\* the page component at rest, while the server is looked at
ClientAtRest ==
    /\ version = "current"
    /\ ui = InitialState
    /\ submissions = <<>>
    /\ event = NoEvent

(***************************************************************************)
(* Initial state: a caller holds a list of files and valid options.        *)
(***************************************************************************)
InitRun(files, o, who) ==
    /\ caller = who
    /\ inputs = files
    /\ form = IF who = "POST" THEN FormOf(o) ELSE NoForm
    /\ options = IF who = "POST" THEN NoOptions ELSE o
    /\ pc = IF who = "POST" THEN "post" ELSE "flatten"
    /\ pos = 0
    /\ bad = <<>>
    /\ allPages = <<>>
    /\ loaded = <<>>
    /\ out = NoDocument
    /\ i = 0
    /\ j = 0
    /\ embeddedMap = NoMap
    /\ consumedByDoc = NoMap
    /\ result = NoResult
    /\ exception = NoException
    /\ response = NoResponse
    /\ ClientAtRest

Init ==
    /\ \E files \in InputLists, o \in OptionSet, who \in {"POST", "direct"} :
          InitRun(files, o, who)
    /\ prev = NoPrev

(***************************************************************************)
(* POST, lines 7-68: validation of the request, then the call of the       *)
(* engine.                                                                 *)
(***************************************************************************)
BadRequest(msg) == [status |-> 400, body |-> [error |-> msg]]

\* (formData.get(name) as string) || fallback
OrDefault(field, fallback) ==
    IF field.present /\ field.text # "" THEN field.text ELSE fallback

\* toUpperCase of the texts a request may hold for the paper
ToUpperCase(text) ==
    CASE text = "a4" -> "A4" [] text = "a3" -> "A3" [] text = "a5" -> "A5"
      [] OTHER -> text

NaN == [nan |-> TRUE, value |-> 0]

Number(n) == [nan |-> FALSE, value |-> n]

\* parseFloat of the texts a request may hold for a length: the longest
\* prefix that is a number, NaN when there is none
ParseFloat(text) ==
    CASE text \in {"0", "0.0"} -> Number(0)
      [] text \in {"3", "3.0"} -> Number(3)
      [] text \in {"6", "6.0"} -> Number(6)
      [] text = "10" -> Number(10)
      [] text \in {"12", "12abc"} -> Number(12)
      [] text = "25" -> Number(25)
      [] text = "50" -> Number(50)
      [] text = "51" -> Number(51)
      [] text = "-1" -> Number(-1)
      [] OTHER -> NaN

\* lines 11-15
ParsedForm(f) ==
    [paper |-> ToUpperCase(OrDefault(f.paper, "A4")),
     orientation |-> OrDefault(f.orientation, "landscape"),
     layout |-> OrDefault(f.layout, "4x2"),
     marginMm |-> ParseFloat(OrDefault(f.margin_mm, "6.0")),
     gapMm |-> ParseFloat(OrDefault(f.gap_mm, "3.0"))]

\* lines 60-66
BuiltOptions(f) ==
    [paper |-> ParsedForm(f).paper, orientation |-> ParsedForm(f).orientation,
     layout |-> ParsedForm(f).layout, margin_mm |-> ParsedForm(f).marginMm.value,
     gap_mm |-> ParsedForm(f).gapMm.value]

\* variant: the margin has no upper limit
PostValidation_NoUpperMargin(files, f) ==
    LET o == ParsedForm(f)
    IN  IF o.paper \notin {"A4", "A3"} THEN BadRequest("Paper must be A4 or A3")
        ELSE IF o.orientation \notin {"landscape", "portrait"}
                THEN BadRequest("Orientation must be landscape or portrait")
        ELSE IF o.layout \notin {"4x2", "2x4"} THEN BadRequest("Layout must be 4x2 or 2x4")
        ELSE IF o.marginMm.nan \/ o.marginMm.value < 0
                THEN BadRequest("margin_mm must be between 0 and 50")
        ELSE IF o.gapMm.nan \/ o.gapMm.value < 0 \/ o.gapMm.value > 50
                THEN BadRequest("gap_mm must be between 0 and 50")
        ELSE IF Len(files) = 0 THEN BadRequest("No files uploaded")
        ELSE IF Len(files) > MAX_FILES THEN BadRequest("Too many files")
        ELSE IF \E n \in 1..Len(files) : files[n].data.byteLength > MAX_FILE_SIZE
                THEN BadRequest("File exceeds 100 MB limit.")
        ELSE NoResponse

PostValidation(files, f) ==
    LET o == ParsedForm(f)
    IN  IF o.paper \notin {"A4", "A3"} THEN BadRequest("Paper must be A4 or A3")
        ELSE IF o.orientation \notin {"landscape", "portrait"}
                THEN BadRequest("Orientation must be landscape or portrait")
        ELSE IF o.layout \notin {"4x2", "2x4"} THEN BadRequest("Layout must be 4x2 or 2x4")
        ELSE IF o.marginMm.nan \/ o.marginMm.value < 0 \/ o.marginMm.value > 50
                THEN BadRequest("margin_mm must be between 0 and 50")
        ELSE IF o.gapMm.nan \/ o.gapMm.value < 0 \/ o.gapMm.value > 50
                THEN BadRequest("gap_mm must be between 0 and 50")
        ELSE IF Len(files) = 0 THEN BadRequest("No files uploaded")
        ELSE IF Len(files) > MAX_FILES THEN BadRequest("Too many files")
        ELSE IF \E n \in 1..Len(files) : files[n].data.byteLength > MAX_FILE_SIZE
                THEN BadRequest("File exceeds 100 MB limit.")
        ELSE NoResponse

PostReject ==
    /\ pc = "post"
    /\ PostValidation(inputs, form) # NoResponse
    /\ response' = PostValidation(inputs, form)
    /\ pc' = "responded"
    /\ UNCHANGED <<version, ui, submissions, event, caller, form, inputs, options, pos, bad, allPages, loaded, out, i, j,
                   embeddedMap, consumedByDoc, result, exception, prev>>

PostInvoke ==
    /\ pc = "post"
    /\ PostValidation(inputs, form) = NoResponse
    /\ options' = BuiltOptions(form)
    /\ pc' = "flatten"
    /\ UNCHANGED <<version, ui, submissions, event, caller, form, inputs, pos, bad, allPages, loaded, out, i, j,
                   embeddedMap, consumedByDoc, result, exception, response, prev>>

(***************************************************************************)
(* impose8up, lines 894-912: the flatten loop, one input file per step.    *)
(***************************************************************************)
Flattening == pc = "flatten" /\ pos < Len(inputs)

CurrentFile == inputs[pos + 1]

EngineLater == <<out, i, j, embeddedMap, consumedByDoc, result, exception, response, prev>>

\* variant: no continue after the record, the file is loaded all the same
RejectHeader_NoContinue ==
    /\ Flattening
    /\ ~isProbablyPdf(CurrentFile.data)
    /\ LET recorded == Append(bad, BadFile(CurrentFile, BadHeaderReason))
           parse    == CurrentFile.parse
       IN  /\ bad' = IF parse.throws
                        THEN Append(recorded, BadFile(CurrentFile, ErrorText(parse.thrown)))
                     ELSE IF Len(parse.pages) = 0
                        THEN Append(recorded, BadFile(CurrentFile, ZeroPagesReason))
                     ELSE recorded
           /\ allPages' = IF parse.throws THEN allPages
                          ELSE allPages \o PagesOfDoc(pos + 1, Len(parse.pages))
    /\ loaded' = Append(loaded, pos + 1)
    /\ pos' = pos + 1
    /\ UNCHANGED <<version, ui, submissions, event, caller, form, inputs, options, pc>>
    /\ UNCHANGED EngineLater

\* lines 895-898
RejectHeader ==
    /\ Flattening
    /\ ~isProbablyPdf(CurrentFile.data)
    /\ bad' = Append(bad, BadFile(CurrentFile, BadHeaderReason))
    /\ pos' = pos + 1
    /\ UNCHANGED <<version, ui, submissions, event, caller, form, inputs, options, pc, allPages, loaded>>
    /\ UNCHANGED EngineLater

\* variant: the error of PDFDocument.load is not caught
RejectUnparsable_Abort ==
    /\ Flattening
    /\ isProbablyPdf(CurrentFile.data)
    /\ CurrentFile.parse.throws
    /\ loaded' = Append(loaded, pos + 1)
    /\ exception' = [raised |-> TRUE, isError |-> CurrentFile.parse.thrown.isError,
                     message |-> ErrorText(CurrentFile.parse.thrown)]
    /\ pc' = "thrown"
    /\ UNCHANGED <<version, ui, submissions, event, caller, form, inputs, options, pos, bad, allPages, out, i, j,
                   embeddedMap, consumedByDoc, result, response, prev>>

\* lines 900 and 909-911: PDFDocument.load throws
RejectUnparsable ==
    /\ Flattening
    /\ isProbablyPdf(CurrentFile.data)
    /\ CurrentFile.parse.throws
    /\ loaded' = Append(loaded, pos + 1)
    /\ bad' = Append(bad, BadFile(CurrentFile, ErrorText(CurrentFile.parse.thrown)))
    /\ pos' = pos + 1
    /\ UNCHANGED <<version, ui, submissions, event, caller, form, inputs, options, pc, allPages>>
    /\ UNCHANGED EngineLater

\* variant: a document without pages is skipped without a record
RejectZeroPages_Silent ==
    /\ Flattening
    /\ isProbablyPdf(CurrentFile.data)
    /\ ~CurrentFile.parse.throws
    /\ Len(CurrentFile.parse.pages) = 0
    /\ loaded' = Append(loaded, pos + 1)
    /\ pos' = pos + 1
    /\ UNCHANGED <<version, ui, submissions, event, caller, form, inputs, options, pc, allPages, bad>>
    /\ UNCHANGED EngineLater

\* lines 900-905
RejectZeroPages ==
    /\ Flattening
    /\ isProbablyPdf(CurrentFile.data)
    /\ ~CurrentFile.parse.throws
    /\ Len(CurrentFile.parse.pages) = 0
    /\ loaded' = Append(loaded, pos + 1)
    /\ bad' = Append(bad, BadFile(CurrentFile, ZeroPagesReason))
    /\ pos' = pos + 1
    /\ UNCHANGED <<version, ui, submissions, event, caller, form, inputs, options, pc, allPages>>
    /\ UNCHANGED EngineLater

\* lines 900-908
AcceptFile ==
    /\ Flattening
    /\ isProbablyPdf(CurrentFile.data)
    /\ ~CurrentFile.parse.throws
    /\ Len(CurrentFile.parse.pages) # 0
    /\ loaded' = Append(loaded, pos + 1)
    /\ allPages' = allPages \o PagesOfDoc(pos + 1, Len(CurrentFile.parse.pages))
    /\ pos' = pos + 1
    /\ UNCHANGED <<version, ui, submissions, event, caller, form, inputs, options, pc, bad>>
    /\ UNCHANGED EngineLater

(***************************************************************************)
(* impose8up, lines 914-921: nothing to impose.                            *)
(***************************************************************************)
\* variant: the count is taken after the cap
FailureResult_CappedCount(b) ==
    [success |-> FALSE, error |-> NoValidPdfError,
     bad_files |-> CappedBad(b), total_bad |-> Len(CappedBad(b))]

\* variant: the failure result carries the counts of an empty document
FailureResult_WithTotals(b) ==
    [success |-> FALSE, error |-> NoValidPdfError, total_pages |-> 0, sheets |-> 0,
     bad_files |-> CappedBad(b), total_bad |-> Len(b)]

FailureResult(b) ==
    [success |-> FALSE, error |-> NoValidPdfError,
     bad_files |-> CappedBad(b), total_bad |-> Len(b)]

ReturnFailure ==
    /\ pc = "flatten"
    /\ pos = Len(inputs)
    /\ Len(allPages) = 0
    /\ result' = FailureResult(bad)
    /\ pc' = "returned"
    /\ UNCHANGED <<version, ui, submissions, event, caller, form, inputs, options, pos, bad, allPages, loaded, out, i, j,
                   embeddedMap, consumedByDoc, exception, response, prev>>

(***************************************************************************)
(* impose8up, lines 923-983: the output document, sheet by sheet.          *)
(***************************************************************************)
\* lines 923-925
CreateOutput ==
    /\ pc = "flatten"
    /\ pos = Len(inputs)
    /\ Len(allPages) # 0
    /\ out' = [created |-> TRUE, pages |-> <<>>]
    /\ i' = 0
    /\ pc' = "chunk"
    /\ UNCHANGED <<version, ui, submissions, event, caller, form, inputs, options, pos, bad, allPages, loaded, j,
                   embeddedMap, consumedByDoc, result, exception, response, prev>>

\* lines 927-950: a new sheet, the pages of its chunk embedded
StartSheet ==
    /\ pc = "chunk"
    /\ i < Len(allPages)
    /\ out' = [out EXCEPT !.pages =
                 Append(@, [size |-> SheetSize(options), draws |-> <<>>])]
    /\ embeddedMap' = EmbedChunk(inputs, Chunk(allPages, i, options))
    /\ consumedByDoc' = NoMap
    /\ j' = 0
    /\ pc' = "draw"
    /\ UNCHANGED <<version, ui, submissions, event, caller, form, inputs, options, pos, bad, allPages, loaded, i,
                   result, exception, response, prev>>

\* the error of reading .width of undefined
TypeErrorUndefined ==
    [raised |-> TRUE, isError |-> TRUE,
     message |-> "Cannot read properties of undefined (reading 'width')"]

\* where the loops stand after cell jj of the chunk at offset from
AfterCell(from, jj) ==
    IF jj + 1 < Len(Chunk(allPages, from, options)) THEN <<from, jj + 1, "draw">>
    ELSE IF from + PerSheet(options) < Len(allPages)
            THEN <<from + PerSheet(options), 0, "chunk">>
    ELSE <<from + PerSheet(options), 0, "save">>

\* lines 952-982: one page of the chunk drawn into its cell
DrawPage ==
    /\ pc = "draw"
    /\ j < Len(Chunk(allPages, i, options))
    /\ LET doc      == Chunk(allPages, i, options)[j + 1].doc
           consumed == Consumed(consumedByDoc, doc)
           embedded == embeddedMap[doc]
       IN  IF consumed + 1 \in DOMAIN embedded
           THEN /\ consumedByDoc' = Consume(consumedByDoc, doc)
                /\ out' = [out EXCEPT !.pages[Len(out.pages)].draws =
                             Append(@, Placement(options, j, embedded[consumed + 1]))]
                /\ i' = AfterCell(i, j)[1]
                /\ j' = AfterCell(i, j)[2]
                /\ pc' = AfterCell(i, j)[3]
                /\ UNCHANGED exception
           ELSE /\ consumedByDoc' = Consume(consumedByDoc, doc)
                /\ exception' = TypeErrorUndefined
                /\ pc' = "thrown"
                /\ UNCHANGED <<out, i, j>>
    /\ UNCHANGED <<version, ui, submissions, event, caller, form, inputs, options, pos, bad, allPages, loaded,
                   embeddedMap, result, response, prev>>

(***************************************************************************)
(* impose8up, lines 985-994: serialization and the result.                 *)
(***************************************************************************)
\* the bytes out.save() yields for a document
Serialized(document) == [bytesOf |-> document.pages]

SuccessResult(document, pages, b) ==
    [success |-> TRUE, pdfBytes |-> Serialized(document),
     total_pages |-> Len(pages), sheets |-> Len(document.pages),
     bad_files |-> CappedBad(b), total_bad |-> Len(b)]

ReturnSuccess ==
    /\ pc = "save"
    /\ result' = SuccessResult(out, allPages, bad)
    /\ pc' = "returned"
    /\ UNCHANGED <<version, ui, submissions, event, caller, form, inputs, options, pos, bad, allPages, loaded, out, i, j,
                   embeddedMap, consumedByDoc, exception, response, prev>>

\* out.save() throws: the output does not fit in memory
SaveError ==
    [raised |-> TRUE, isError |-> TRUE, message |-> "Array buffer allocation failed"]

SaveThrows ==
    /\ pc = "save"
    /\ exception' = SaveError
    /\ pc' = "thrown"
    /\ UNCHANGED <<version, ui, submissions, event, caller, form, inputs, options, pos, bad, allPages, loaded, out, i, j,
                   embeddedMap, consumedByDoc, result, response, prev>>

(***************************************************************************)
(* POST, lines 68-102: the result, or the exception, becomes the response. *)
(***************************************************************************)
\* lines 70-79
UnprocessableResponse(r) ==
    [status |-> 422,
     body |-> [error |-> IF "error" \in DOMAIN r THEN r.error ELSE "Imposition failed",
               bad_files |-> r.bad_files, total_bad |-> r.total_bad]]

\* lines 87-97
PdfResponse(r) ==
    [status |-> 200, body |-> r.pdfBytes,
     headers |-> [XTotalPages |-> r.total_pages, XSheets |-> r.sheets,
                  XBadFiles |-> r.bad_files, XTotalBad |-> r.total_bad]]

\* variant: the message of the error is not passed on
ErrorResponse_Unknown(e) == [status |-> 500, body |-> [error |-> "Unknown error"]]

\* lines 98-102
ErrorResponse(e) ==
    [status |-> 500,
     body |-> [error |-> IF e.isError THEN e.message ELSE "Unknown error"]]

PostRespond ==
    /\ caller = "POST"
    /\ pc = "returned"
    /\ response' = IF ~result.success \/ "pdfBytes" \notin DOMAIN result
                   THEN UnprocessableResponse(result)
                   ELSE PdfResponse(result)
    /\ pc' = "responded"
    /\ UNCHANGED <<version, ui, submissions, event, caller, form, inputs, options, pos, bad, allPages, loaded, out, i, j,
                   embeddedMap, consumedByDoc, result, exception, prev>>

PostCatch ==
    /\ caller = "POST"
    /\ pc = "thrown"
    /\ response' = ErrorResponse(exception)
    /\ pc' = "responded"
    /\ UNCHANGED <<version, ui, submissions, event, caller, form, inputs, options, pos, bad, allPages, loaded, out, i, j,
                   embeddedMap, consumedByDoc, result, exception, prev>>

Next ==
    \/ PostReject
    \/ PostInvoke
    \/ RejectHeader
    \/ RejectUnparsable
    \/ RejectZeroPages
    \/ AcceptFile
    \/ ReturnFailure
    \/ CreateOutput
    \/ StartSheet
    \/ DrawPage
    \/ ReturnSuccess
    \/ SaveThrows
    \/ PostRespond
    \/ PostCatch

Spec == Init /\ [][Next]_vars

(***************************************************************************)
(* A second run of the same caller on the same list without the inputs     *)
(* the first run rejected.  The first run's inputs, result and output      *)
(* document are kept for comparison.                                       *)
(***************************************************************************)
Finished ==
    \/ pc = "responded"
    \/ caller = "direct" /\ pc \in {"returned", "thrown"}

RejectedNames == {bad[n].path : n \in 1..Len(bad)}

WithoutRejected == SelectSeq(inputs, LAMBDA f : f.name \notin RejectedNames)

Rerun ==
    /\ Finished
    /\ prev = NoPrev
    /\ prev' = [ran |-> TRUE, inputs |-> inputs, result |-> result, out |-> out]
    /\ inputs' = WithoutRejected
    /\ pc' = IF caller = "POST" THEN "post" ELSE "flatten"
    /\ pos' = 0
    /\ bad' = <<>>
    /\ allPages' = <<>>
    /\ loaded' = <<>>
    /\ out' = NoDocument
    /\ i' = 0
    /\ j' = 0
    /\ embeddedMap' = NoMap
    /\ consumedByDoc' = NoMap
    /\ result' = NoResult
    /\ exception' = NoException
    /\ response' = NoResponse
    /\ options' = IF caller = "POST" THEN NoOptions ELSE options
    /\ UNCHANGED <<version, ui, submissions, event, caller, form>>

NextRerun == Next \/ Rerun

SpecRerun == Init /\ [][NextRerun]_vars

(***************************************************************************)
(* Requests of any client: every field absent, valid or invalid, with a    *)
(* short list of files; and the form of the client page with lists at the  *)
(* limits of the file count and of the file size.                          *)
(***************************************************************************)
PaperFields == {Absent, Field(""), Field("A4"), Field("a3"), Field("A5")}

OrientationFields == {Absent, Field("landscape"), Field("portrait"), Field("Landscape")}

LayoutFields == {Absent, Field("4x2"), Field("2x4"), Field("8x1")}

MarginFields ==
    {Absent, Field("0"), Field("25"), Field("50"), Field("51"), Field("-1"),
     Field("abc"), Field("12abc")}

GapFields == {Absent, Field("0"), Field("10"), Field("50"), Field("51"), Field("-1"), Field("abc")}

DefaultForm ==
    [paper |-> Absent, orientation |-> Absent, layout |-> Absent,
     margin_mm |-> Absent, gap_mm |-> Absent]

\* the forms a client fills in completely with values the handler accepts
EnteredForms ==
    [paper : {Field("A4"), Field("a3")},
     orientation : {Field("landscape"), Field("portrait")},
     layout : {Field("4x2"), Field("2x4")},
     margin_mm : {Absent, Field("0"), Field("25"), Field("50"), Field("12abc")},
     gap_mm : {Absent, Field("0"), Field("10"), Field("50")}]

\* the forms with at most two fields, of any content
SparseForms ==
    {f \in [paper : PaperFields, orientation : OrientationFields, layout : LayoutFields,
            margin_mm : MarginFields, gap_mm : GapFields] :
        Cardinality({k \in DOMAIN f : f[k] # Absent}) <= 2}

Forms == EnteredForms \cup SparseForms

MixedList == InputList(<<"magic", "broken", "eight", "empty", "one">>, 0)

LimitLists ==
    { InputList(<<>>, 0),
      InputList(<<"small">>, 0),
      InputList(<<"one">>, MAX_FILES - 1),
      InputList(<<"one">>, MAX_FILES),
      InputList(<<"full", "one">>, 0),
      InputList(<<"one", "huge">>, 0) }

InitRequest(files, f) ==
    /\ caller = "POST"
    /\ inputs = files
    /\ form = f
    /\ options = NoOptions
    /\ pc = "post"
    /\ pos = 0
    /\ bad = <<>>
    /\ allPages = <<>>
    /\ loaded = <<>>
    /\ out = NoDocument
    /\ i = 0
    /\ j = 0
    /\ embeddedMap = NoMap
    /\ consumedByDoc = NoMap
    /\ result = NoResult
    /\ exception = NoException
    /\ response = NoResponse
    /\ prev = NoPrev
    /\ ClientAtRest

InitPost ==
    \/ \E f \in Forms : InitRequest(MixedList, f)
    \/ \E files \in LimitLists : InitRequest(files, DefaultForm)

SpecPost == InitPost /\ [][Next]_vars

(***************************************************************************)
(* The page component: its handlers.  A handler runs to its end, or to its *)
(* next await, before another one starts; React applies the state updates  *)
(* of a handler together.                                                  *)
(***************************************************************************)
\* newFiles.filter(type is application/pdf or name ends with .pdf)
PdfFiles(newFiles) == SelectSeq(newFiles, IsPdf)

\* variant: the limit is put on the new files alone
AddedFiles_NewOnly(prevFiles, pdfFiles) ==
    IF Len(pdfFiles) > MAX_SELECTED THEN prevFiles ELSE prevFiles \o pdfFiles

\* the updater given to setFiles by addFiles
AddedFiles(prevFiles, pdfFiles) ==
    LET combined == prevFiles \o pdfFiles
    IN  IF Len(combined) > MAX_SELECTED THEN prevFiles ELSE combined

\* prev.filter((_, i) => i !== index)
Without(prevFiles, index) ==
    LET kept == {k \in 1..Len(prevFiles) : k - 1 # index}
    IN  [n \in 1..Cardinality(kept) |-> prevFiles[IF n - 1 < index THEN n ELSE n + 1]]

Happened(kind, index, given) ==
    [kind |-> kind, before |-> ui.files, index |-> index, given |-> given,
     adds |-> event.adds + (IF kind \in {"handleFileChange", "handleDrop"} THEN 1 ELSE 0),
     removes |-> event.removes + (IF kind = "removeFile" THEN 1 ELSE 0)]

\* addFiles: the list grows by the PDF files unless it would pass the limit.
\* The message of the limit is set inside the updater and cleared by the
\* handler: which of the two is applied last depends on when React runs the
\* updater.
AddFiles(newFiles) ==
    LET pdfFiles == PdfFiles(newFiles)
    IN  IF Len(pdfFiles) = 0
            THEN UNCHANGED ui
            ELSE \E message \in
                        IF Len(ui.files \o pdfFiles) > MAX_SELECTED
                            THEN {"", TooManyMessage} ELSE {""} :
                    ui' = [ui EXCEPT !.files = AddedFiles(ui.files, pdfFiles),
                                     !.errorMessage = message,
                                     !.badFiles = <<>>,
                                     !.totalBad = 0,
                                     !.resultInfo = NoResultInfo,
                                     !.status = "idle"]

\* the earlier handleFileChange: the selection replaces the list
ReplaceFiles(arr) ==
    IF Len(arr) > MAX_SELECTED
        THEN ui' = [ui EXCEPT !.errorMessage = TooManyMessage]
        ELSE ui' = [ui EXCEPT !.files = arr,
                              !.errorMessage = "",
                              !.badFiles = <<>>,
                              !.totalBad = 0,
                              !.resultInfo = NoResultInfo,
                              !.status = "idle"]

HandleFileChange ==
    /\ event.adds < MaxAdds
    /\ \E selected \in PickedLists :
          /\ IF version = "earlier" THEN ReplaceFiles(selected) ELSE AddFiles(selected)
          /\ event' = Happened("handleFileChange", 0, selected)
    /\ UNCHANGED <<version, submissions>>
    /\ UNCHANGED serverVars

HandleDrop ==
    /\ version = "current"
    /\ event.adds < MaxAdds
    /\ \E dropped \in DroppedLists :
          /\ AddFiles(dropped)
          /\ event' = Happened("handleDrop", 0, dropped)
    /\ UNCHANGED <<version, submissions>>
    /\ UNCHANGED serverVars

\* the rows of the list a user is taken to click: the first two and the last
RemovableRows == {0, 1, Len(ui.files) - 1} \cap (0..(Len(ui.files) - 1))

RemoveFile ==
    /\ event.removes < MaxRemoves
    /\ \E index \in RemovableRows :
          /\ ui' = [ui EXCEPT !.files = Without(ui.files, index)]
          /\ event' = Happened("removeFile", index, <<>>)
    /\ UNCHANGED <<version, submissions>>
    /\ UNCHANGED serverVars

\* "Tout supprimer", shown while the list is not empty
ClearAll ==
    /\ Len(ui.files) > 0
    /\ ui' = [ui EXCEPT !.files = <<>>]
    /\ event' = Happened("clearAll", 0, <<>>)
    /\ UNCHANGED <<version, submissions>>
    /\ UNCHANGED serverVars

isProcessing == ui.status \in {"uploading", "processing"}

\* the disabled attribute of the submit button
SubmitDisabled == Len(ui.files) = 0 \/ isProcessing

\* what fetch can resolve with
Reply(status, isJson, error, hasBadFiles, badFiles, totalBad, pages, sheets) ==
    [ok |-> status \in 200..299, status |-> status, isJson |-> isJson, error |-> error,
     hasBadFiles |-> hasBadFiles, bad_files |-> badFiles, total_bad |-> totalBad,
     pages |-> pages, sheets |-> sheets]

OneBadFile == <<[path |-> "b.pdf", error |-> BadHeaderReason]>>

Replies ==
    { Reply(200, FALSE, "", TRUE, OneBadFile, 1, 8, 1),
      Reply(422, TRUE, NoValidPdfError, TRUE, OneBadFile, 1, 0, 0),
      Reply(500, TRUE, "", FALSE, <<>>, 0, 0, 0) }

NoReply == [status |-> 0]

\* one call of handleSubmit: where it waits, what it received, and the
\* values it gave to setStatus
Submission(at, reply, calls) == [pc |-> at, response |-> reply, setStatus |-> calls]

InFlight == {n \in 1..Len(submissions) : submissions[n].pc # "over"}

Waiting(at) == {n \in 1..Len(submissions) : submissions[n].pc = at}

Moved(n, at, reply, status) ==
    [submissions EXCEPT ![n] =
        Submission(at, reply,
                   IF status = "" THEN @.setStatus ELSE Append(@.setStatus, status))]

\* the click on the submit button, up to the await of fetch
HandleSubmit ==
    /\ ~SubmitDisabled
    /\ Len(submissions) < MaxSubmits
    /\ ui' = [ui EXCEPT !.status = "processing",
                        !.statusMessage = "Imposition en cours...",
                        !.errorMessage = "",
                        !.badFiles = <<>>,
                        !.totalBad = 0,
                        !.resultInfo = NoResultInfo]
    /\ submissions' = Append(submissions, Submission("fetch", NoReply, <<"uploading", "processing">>))
    /\ event' = Happened("handleSubmit", Len(submissions) + 1, <<>>)
    /\ UNCHANGED version
    /\ UNCHANGED serverVars

\* the catch block
Caught(n, message) ==
    /\ ui' = [ui EXCEPT !.status = "error", !.errorMessage = message]
    /\ submissions' = Moved(n, "over", submissions[n].response, "error")

\* fetch rejects: the request did not reach the server or no answer came
FetchRejected ==
    /\ \E n \in Waiting("fetch") :
          /\ Caught(n, "Failed to fetch")
          /\ event' = Happened("fetchRejected", n, <<>>)
    /\ UNCHANGED version
    /\ UNCHANGED serverVars

\* fetch resolves: a response that is not ok is read as JSON, an ok one
\* gives the result info and its body is read
FetchResolved ==
    /\ \E n \in Waiting("fetch"), reply \in Replies :
          /\ IF ~reply.ok
                THEN /\ UNCHANGED ui
                     /\ submissions' = Moved(n, "json", reply, "")
                ELSE /\ ui' = [ui EXCEPT
                                 !.badFiles = IF Len(reply.bad_files) > 0
                                                 THEN reply.bad_files ELSE @,
                                 !.totalBad = IF Len(reply.bad_files) > 0
                                                 THEN reply.total_bad ELSE @,
                                 !.resultInfo = ResultInfo(reply.pages, reply.sheets)]
                     /\ submissions' = Moved(n, "blob", reply, "")
          /\ event' = Happened("fetchResolved", n, <<>>)
    /\ UNCHANGED version
    /\ UNCHANGED serverVars

\* response.json() resolves with the body of the error
JsonResolved ==
    /\ \E n \in Waiting("json") :
          LET errorData == submissions[n].response
          IN  /\ ui' = [ui EXCEPT
                          !.status = "error",
                          !.errorMessage = IF errorData.error # "" THEN errorData.error
                                           ELSE ProcessingErrorMessage,
                          !.badFiles = IF errorData.hasBadFiles THEN errorData.bad_files ELSE @,
                          !.totalBad = IF errorData.hasBadFiles THEN errorData.total_bad ELSE @]
              /\ submissions' = Moved(n, "over", errorData, "error")
              /\ event' = Happened("jsonResolved", n, <<>>)
    /\ UNCHANGED version
    /\ UNCHANGED serverVars

\* response.json() rejects: the body is not JSON, or the connection broke
JsonRejected ==
    /\ \E n \in Waiting("json") :
          /\ Caught(n, "Unexpected token")
          /\ event' = Happened("jsonRejected", n, <<>>)
    /\ UNCHANGED version
    /\ UNCHANGED serverVars

\* response.blob() resolves: the file is downloaded
BlobResolved ==
    /\ \E n \in Waiting("blob") :
          /\ ui' = [ui EXCEPT !.status = "done", !.statusMessage = "LOT_output.pdf"]
          /\ submissions' = Moved(n, "over", submissions[n].response, "done")
          /\ event' = Happened("blobResolved", n, <<>>)
    /\ UNCHANGED version
    /\ UNCHANGED serverVars

\* response.blob() rejects: the connection broke while the body was read
BlobRejected ==
    /\ \E n \in Waiting("blob") :
          /\ Caught(n, "Failed to fetch")
          /\ event' = Happened("blobRejected", n, <<>>)
    /\ UNCHANGED version
    /\ UNCHANGED serverVars

\* the server is not looked at
ServerAtRest ==
    /\ caller = "client"
    /\ inputs = <<>>
    /\ form = NoForm
    /\ options = NoOptions
    /\ pc = "responded"
    /\ pos = 0
    /\ bad = <<>>
    /\ allPages = <<>>
    /\ loaded = <<>>
    /\ out = NoDocument
    /\ i = 0
    /\ j = 0
    /\ embeddedMap = NoMap
    /\ consumedByDoc = NoMap
    /\ result = NoResult
    /\ exception = NoException
    /\ response = NoResponse
    /\ prev = NoPrev

InitClient ==
    /\ version \in Versions
    /\ ui = InitialState
    /\ submissions = <<>>
    /\ event = NoEvent
    /\ ServerAtRest

\* the handlers of the file list alone
NextFiles ==
    \/ HandleFileChange
    \/ HandleDrop
    \/ RemoveFile
    \/ ClearAll

SpecFiles == InitClient /\ [][NextFiles]_vars

NextClient ==
    \/ HandleFileChange
    \/ HandleDrop
    \/ RemoveFile
    \/ ClearAll
    \/ HandleSubmit
    \/ FetchRejected
    \/ FetchResolved
    \/ JsonResolved
    \/ JsonRejected
    \/ BlobResolved
    \/ BlobRejected

SpecClient == InitClient /\ [][NextClient]_vars

(***************************************************************************)
(* Vocabulary of the properties.  These definitions restate what the       *)
(* specification says about inputs; the actions above do not use them.     *)
(***************************************************************************)
Returned == result # NoResult

Succeeded == Returned /\ result.success

\* the engine was entered (the request was not answered with 400)
Invoked == pc # "post" /\ response.status # 400

\* the flatten loop is over
Flattened == Invoked /\ pc # "flatten"

HeaderOk(f) ==
    /\ f.data.byteLength >= 1024
    /\ Len(f.data.head) >= 5
    /\ SubSeq(f.data.head, 1, 5) = <<37, 80, 68, 70, 45>>

Acceptable(f) == HeaderOk(f) /\ ~f.parse.throws /\ Len(f.parse.pages) >= 1

\* the inputs of a list that are not acceptable, in the order of the list
RejectedOf(files) == SelectSeq(files, LAMBDA f : ~Acceptable(f))

\* the pages of the acceptable inputs among the first n of a list
RECURSIVE PageTotalTo(_, _)
PageTotalTo(files, n) ==
    IF n = 0 THEN 0
    ELSE PageTotalTo(files, n - 1)
         + (IF Acceptable(files[n]) THEN Len(files[n].parse.pages) ELSE 0)

PageTotal(files) == PageTotalTo(files, Len(files))

CeilDiv(n, c) == (n + c - 1) \div c

Sheets == out.pages

\* the page drawn into cell c (from 1) of sheet k (from 1)
Drawn(k, c) == Sheets[k].draws[c].page

\* the assembly is not in the middle of a sheet
AtRest == pc \notin {"chunk", "draw"}

\* C1: a successful run on N pages reports ceil(N/8) sheets; every sheet
\* but the last holds 8 placed pages and the last holds N - 8*(sheets-1)
\* pages, between 1 and 8.
C1_SheetCount ==
    Succeeded =>
        LET N == result.total_pages
            S == result.sheets
        IN  /\ N >= 1
            /\ PerSheet(options) = 8
            /\ S = CeilDiv(N, 8)
            /\ Len(Sheets) = S
            /\ \A k \in 1..(S - 1) : Len(Sheets[k].draws) = 8
            /\ Len(Sheets[S].draws) = N - 8 * (S - 1)
            /\ Len(Sheets[S].draws) \in 1..8

\* a successful run with a full sheet followed by a partly filled one
C1_Witness ==
    /\ Succeeded
    /\ result.sheets >= 2
    /\ Len(Sheets[result.sheets].draws) < 8

\* C2: the pages of an input supplied earlier are placed before the pages
\* of an input supplied later, and the pages of one input are placed in
\* increasing page index, in the order (sheet, cell).
C2_GlobalOrder ==
    AtRest =>
        \A k1 \in 1..Len(Sheets), k2 \in 1..Len(Sheets) :
            \A c1 \in 1..Len(Sheets[k1].draws), c2 \in 1..Len(Sheets[k2].draws) :
                LET a == Drawn(k1, c1)
                    b == Drawn(k2, c2)
                IN  (a.doc < b.doc \/ (a.doc = b.doc /\ a.pageIndex < b.pageIndex))
                        => (k1 < k2 \/ (k1 = k2 /\ c1 < c2))

\* two sheets, pages of two inputs on the first, a multi-page input
C2_Witness ==
    /\ Succeeded
    /\ Len(Sheets) >= 2
    /\ Drawn(1, 1).doc # Drawn(1, 2).doc
    /\ Drawn(1, 2).doc = Drawn(1, 3).doc

\* C3: cell j of sheet k shows page allPages[k*8+j].pageIndex of document
\* allPages[k*8+j].doc, with that page's size, and the consumed counter
\* never runs past the embedded pages of a document.
C3_CursorCorrect ==
    /\ exception # TypeErrorUndefined
    /\ \A k \in 1..Len(Sheets) :
          \A c \in 1..Len(Sheets[k].draws) :
              LET ref == allPages[(k - 1) * 8 + c]
              IN  /\ Drawn(k, c).doc = ref.doc
                  /\ Drawn(k, c).pageIndex = ref.pageIndex
                  /\ <<Drawn(k, c).width, Drawn(k, c).height>>
                        = inputs[ref.doc].parse.pages[ref.pageIndex + 1]
    /\ pc = "draw" =>
          Consumed(consumedByDoc, Chunk(allPages, i, options)[j + 1].doc)
             < Len(embeddedMap[Chunk(allPages, i, options)[j + 1].doc])

\* one document fills the end of a sheet and goes on at the top of the next
C3_Witness ==
    /\ Succeeded
    /\ Len(Sheets) >= 2
    /\ Drawn(1, 7).doc = Drawn(1, 8).doc
    /\ Drawn(1, 8).doc = Drawn(2, 1).doc
    /\ Drawn(2, 1).pageIndex = Drawn(1, 8).pageIndex + 1

\* the inputs handled so far
Processed == SubSeq(inputs, 1, pos)

C4_State ==
    /\ pos <= Len(inputs)
    /\ Flattened => pos = Len(inputs)
    /\ \A n \in 1..Len(loaded) : \A m \in 1..Len(loaded) : n < m => loaded[n] < loaded[m]
    /\ Len(bad) = Len(RejectedOf(Processed))
    /\ Len(bad) + Cardinality({allPages[m].doc : m \in 1..Len(allPages)}) = pos
    /\ Len(allPages) = PageTotal(Processed)
    /\ \A n \in 1..pos :
          LET pagesOfN   == Cardinality({m \in 1..Len(allPages) : allPages[m].doc = n})
              recordsOfN == Cardinality({m \in 1..Len(bad) : bad[m].path = inputs[n].name})
          IN  \/ recordsOfN = 1 /\ pagesOfN = 0
              \/ recordsOfN = 0 /\ pagesOfN = Len(inputs[n].parse.pages) /\ pagesOfN >= 1
    /\ Returned => result.total_bad = Len(RejectedOf(inputs))
    /\ Succeeded => result.total_pages = PageTotal(inputs)

C4_Step ==
    /\ pos' \in {pos, pos + 1}
    /\ pos' = pos => (bad' = bad /\ allPages' = allPages)
    /\ pos' = pos + 1 =>
          \/ Len(bad') = Len(bad) + 1 /\ allPages' = allPages
          \/ bad' = bad /\ Len(allPages') > Len(allPages)
    /\ pc = "flatten" => pc' \in {"flatten", "returned", "chunk"}

\* C4: every input is handled once, in order, and a rejected input does
\* not stop the batch; an input adds either one bad-file record and no page,
\* or all its pages and no record; total_bad is the number of rejected
\* inputs and total_pages the sum of the accepted documents' page counts.
C4_Accounting == [][C4_Step]_vars /\ []C4_State

\* a run that succeeded although an input before an accepted one was rejected
C4_Witness ==
    /\ Succeeded
    /\ result.total_bad >= 1
    /\ \E a \in 1..Len(inputs), b \in 1..Len(inputs) :
          a < b /\ ~Acceptable(inputs[a]) /\ Acceptable(inputs[b])

Min(a, b) == IF a <= b THEN a ELSE b

\* C5: bad_files holds the first 50 rejected inputs in input order, so its
\* length is min(total_bad, 50), and total_bad counts all rejected inputs.
C5_BadFileCap ==
    Returned =>
        LET rejected == RejectedOf(inputs)
        IN  /\ result.total_bad = Len(rejected)
            /\ Len(result.bad_files) = Min(result.total_bad, 50)
            /\ \A n \in 1..Len(result.bad_files) :
                  result.bad_files[n].path = rejected[n].name

\* a successful run that rejected more than 50 inputs
C5_Witness ==
    /\ Succeeded
    /\ result.total_bad > 50
    /\ Len(result.bad_files) = 50

AllRejected == \A n \in 1..Len(inputs) : ~Acceptable(inputs[n])

\* C6: when every input is rejected, or there is no input, the run returns
\* success=false with an error, no pdfBytes and total_bad equal to the
\* number of inputs, and no output document is created.
C6_ZeroValid ==
    (AllRejected /\ Flattened) =>
        /\ pc # "thrown" /\ exception = NoException
        /\ Returned
        /\ result.success = FALSE
        /\ "error" \in DOMAIN result /\ result.error # ""
        /\ "pdfBytes" \notin DOMAIN result
        /\ result.total_bad = Len(inputs)
        /\ out = NoDocument

\* a failed run on more inputs than the bad-file list can hold
C6_Witness ==
    /\ Returned
    /\ AllRejected
    /\ Len(inputs) > 50

SaveFailed == exception = SaveError

\* C7 as stated: a failing serialization ends the run with a result value
\* that has success=false, an error and no output bytes.
C7_SaveFailureResult ==
    SaveFailed =>
        /\ Returned
        /\ result.success = FALSE
        /\ "error" \in DOMAIN result
        /\ "pdfBytes" \notin DOMAIN result

\* C7, amended: a failing serialization ends impose8up without a result
\* value, by the error thrown; POST answers it with status 500 and a body
\* that holds the message of the error and nothing else.
C7_SaveFailureThrown ==
    SaveFailed =>
        /\ ~Returned
        /\ pc \in {"thrown", "responded"}
        /\ caller = "direct" => pc = "thrown"
        /\ pc = "responded" =>
              response = [status |-> 500,
                          body |-> [error |-> "Array buffer allocation failed"]]

\* POST has answered a run whose serialization failed
C7_Witness ==
    /\ SaveFailed
    /\ pc = "responded"
    /\ Len(bad) >= 1

\* the record of input n, if bad holds one
RecordsOf(n) == {bad[m] : m \in {k \in 1..Len(bad) : bad[k].path = inputs[n].name}}

PagesOf(n) == {m \in 1..Len(allPages) : allPages[m].doc = n}

WasLoaded(n) == \E m \in 1..Len(loaded) : loaded[m] = n

FailsPreCheck(f) ==
    \/ f.data.byteLength < 1024
    \/ Len(f.data.head) < 5
    \/ \E k \in 1..5 : f.data.head[k] # <<37, 80, 68, 70, 45>>[k]

HeaderRejection(reason) ==
    \A n \in 1..pos :
        FailsPreCheck(inputs[n]) =>
            /\ ~WasLoaded(n)
            /\ PagesOf(n) = {}
            /\ RecordsOf(n) = {[path |-> inputs[n].name, error |-> reason]}

\* C9 as stated: an input shorter than 1024 bytes or not starting with
\* %PDF- is not parsed, adds no page and is recorded with the reason
\* "Not a valid document (bad header or too small)".
C9_HeaderDocumentReason ==
    HeaderRejection("Not a valid document (bad header or too small)")

\* C9, amended: the same, with the reason
\* "Not a valid PDF (bad header or too small)".
C9_HeaderPdfReason ==
    HeaderRejection("Not a valid PDF (bad header or too small)")

\* a short buffer with the magic and a long one with a wrong magic handled
C9_Witness ==
    \E a \in 1..pos, b \in 1..pos :
        /\ inputs[a].data.byteLength < 1024
        /\ inputs[a].data.head = <<37, 80, 68, 70, 45>>
        /\ inputs[b].data.byteLength >= 1024
        /\ inputs[b].data.head # <<37, 80, 68, 70, 45>>
        /\ ~inputs[b].parse.throws

\* input n added all its pages and no record
Accepted(n) ==
    /\ RecordsOf(n) = {}
    /\ Cardinality(PagesOf(n)) = Len(inputs[n].parse.pages)
    /\ PagesOf(n) # {}

\* C10: an input is accepted exactly if it passes the header pre-check,
\* parses and has a page; a parsed document without pages is recorded with
\* "0 pages", a parse failure with the parser's message; neither adds a
\* page and the loop goes on to the next input.
C10_Acceptance ==
    /\ Flattened => pos = Len(inputs)
    /\ \A n \in 1..pos :
          LET f == inputs[n]
          IN  /\ Accepted(n) <=> Acceptable(f)
              /\ (HeaderOk(f) /\ ~f.parse.throws /\ Len(f.parse.pages) = 0) =>
                    /\ RecordsOf(n) = {[path |-> f.name, error |-> "0 pages"]}
                    /\ PagesOf(n) = {}
              /\ (HeaderOk(f) /\ f.parse.throws) =>
                    /\ PagesOf(n) = {}
                    /\ \E r \in RecordsOf(n) :
                          /\ RecordsOf(n) = {r}
                          /\ f.parse.thrown.isError => r.error = f.parse.thrown.message
                          /\ ~f.parse.thrown.isError => r.error = String(f.parse.thrown.value)

\* a document without pages and an unparsable one handled, then one accepted
C10_Witness ==
    \E a \in 1..pos, b \in 1..pos, c \in 1..pos :
        /\ a < c /\ b < c
        /\ HeaderOk(inputs[a]) /\ ~inputs[a].parse.throws /\ inputs[a].parse.pages = <<>>
        /\ HeaderOk(inputs[b]) /\ inputs[b].parse.throws
        /\ Accepted(c)

\* what a document shows: per sheet and cell the name of the source file,
\* the page index and the rectangle
Shown(document, files) ==
    [k \in 1..Len(document.pages) |->
        [c \in 1..Len(document.pages[k].draws) |->
            LET d == document.pages[k].draws[c]
            IN  [source |-> files[d.page.doc].name, pageIndex |-> d.page.pageIndex,
                 x |-> d.x, y |-> d.y, width |-> d.width, height |-> d.height]]]

\* C8: the run on the list without the rejected inputs gives the same
\* total_pages, sheets and placements as the run on the full list.
C8_Idempotence ==
    (prev.ran /\ (Returned \/ SaveFailed) /\ prev.result # NoResult) =>
        /\ Shown(out, inputs) = Shown(prev.out, prev.inputs)
        /\ Returned =>
              /\ result.success = prev.result.success
              /\ result.total_bad = 0
              /\ result.success =>
                    /\ result.total_pages = prev.result.total_pages
                    /\ result.sheets = prev.result.sheets

\* the second run succeeded after the first rejected an input that stood
\* before an accepted one
C8_Witness ==
    /\ prev.ran
    /\ Succeeded
    /\ result.sheets >= 2
    /\ prev.result # NoResult
    /\ prev.result.total_bad >= 1
    /\ ~Acceptable(prev.inputs[1])
    /\ Len(inputs) < Len(prev.inputs)

(***************************************************************************)
(* Vocabulary of the geometry: the lengths as the specification gives      *)
(* them, in points.                                                        *)
(***************************************************************************)
\* the options of the run exist
Built == options # NoOptions

\* mm * 72 / 25.4
Pt(mm) == RNorm(720 * mm, 254)

XCols == IF options.layout = "4x2" THEN 4 ELSE 2

XRows == IF options.layout = "4x2" THEN 2 ELSE 4

XMargin == Pt(options.margin_mm)

XGap == Pt(options.gap_mm)

XSheet ==
    CASE options.paper = "A4" /\ options.orientation = "portrait"  -> <<595, 842>>
      [] options.paper = "A4" /\ options.orientation = "landscape" -> <<842, 595>>
      [] options.paper = "A3" /\ options.orientation = "portrait"  -> <<842, 1191>>
      [] options.paper = "A3" /\ options.orientation = "landscape" -> <<1191, 842>>

RSum3(a, b, c) == RAdd(RAdd(a, b), c)

RLt(a, b) == RLe(a, b) /\ a # b

Zero == RInt(0)

\* (length - 2*margin - (n-1)*gap) / n
XCell(length, n) ==
    RDiv(RSub(RSub(RInt(length), RMul(RInt(2), XMargin)), RMul(RInt(n - 1), XGap)), RInt(n))

XCellW == XCell(XSheet[1], XCols)

XCellH == XCell(XSheet[2], XRows)

\* origin of the cell in row r and column c, rows counted from the top
XCellX(c) == RAdd(XMargin, RMul(RInt(c), RAdd(XCellW, XGap)))

XCellY(r) ==
    RSub(RSub(RSub(RInt(XSheet[2]), XMargin), RMul(RInt(r + 1), XCellH)), RMul(RInt(r), XGap))

\* the draws of the output document: sheet k, position jj (from 0)
DrawPlaces == {<<k, jj>> \in (1..Len(Sheets)) \X (0..7) : jj < Len(Sheets[k].draws)}

DrawAt(p) == Sheets[p[1]].draws[p[2] + 1]

PositiveCell == RLt(Zero, XCellW) /\ RLt(Zero, XCellH)

\* C11: on each axis 2*margin + n*cell + (n-1)*gap is the sheet length,
\* with margin and gap converted from mm to points.
C11_CellSize ==
    Built =>
        /\ Cols(options) = XCols /\ Rows(options) = XRows
        /\ Margin(options) = XMargin /\ Gap(options) = XGap
        /\ CellW(options) = XCellW
        /\ CellH(options) = XCellH
        /\ RSum3(RMul(RInt(2), XMargin), RMul(RInt(XCols), CellW(options)),
                 RMul(RInt(XCols - 1), XGap)) = RInt(XSheet[1])
        /\ RSum3(RMul(RInt(2), XMargin), RMul(RInt(XRows), CellH(options)),
                 RMul(RInt(XRows - 1), XGap)) = RInt(XSheet[2])

\* pages were drawn on a 2x4 grid with a margin and a gap
C11_Witness ==
    /\ Built
    /\ DrawPlaces # {}
    /\ options.layout = "2x4"
    /\ options.margin_mm = 25
    /\ options.gap_mm = 10

\* C12: position j is the cell in row floor(j/cols) and column j mod cols,
\* with x = margin + col*(cellW+gap) and
\* y = sheetHeight - margin - (row+1)*cellH - row*gap; cell 0 is the
\* top-left cell, distinct positions are distinct cells and row < rows; the
\* page drawn at position j is centered on that cell.
C12_CellOrder ==
    Built =>
        /\ \A jj \in 0..7 :
              /\ CellRow(options, jj) = jj \div XCols
              /\ CellCol(options, jj) = jj % XCols
              /\ CellRow(options, jj) < XRows
              /\ CellX(options, jj) = XCellX(jj % XCols)
              /\ CellY(options, jj) = XCellY(jj \div XCols)
        /\ CellX(options, 0) = XMargin
        /\ RAdd(CellY(options, 0), XCellH) = RSub(RInt(XSheet[2]), XMargin)
        /\ \A j1 \in 0..7, j2 \in 0..7 :
              j1 # j2 => <<CellRow(options, j1), CellCol(options, j1)>>
                            # <<CellRow(options, j2), CellCol(options, j2)>>
        /\ \A p \in DrawPlaces :
              /\ RAdd(DrawAt(p).x, RDiv(DrawAt(p).width, RInt(2)))
                    = RAdd(XCellX(p[2] % XCols), RDiv(XCellW, RInt(2)))
              /\ RAdd(DrawAt(p).y, RDiv(DrawAt(p).height, RInt(2)))
                    = RAdd(XCellY(p[2] \div XCols), RDiv(XCellH, RInt(2)))

\* a sheet of the 4x2 grid is full: both rows were drawn
C12_Witness ==
    /\ Built
    /\ options.layout = "4x2"
    /\ <<1, 7>> \in DrawPlaces

\* C13: every sheet has the size of the paper, the two lengths swapped in
\* landscape; a landscape sheet is wider than tall, a portrait sheet taller
\* than wide; all sheets of a run have the same size.
C13_SheetSize ==
    \A k \in 1..Len(Sheets) :
        /\ Sheets[k].size = XSheet
        /\ Sheets[k].size = Sheets[1].size
        /\ options.orientation = "landscape" => Sheets[k].size[1] > Sheets[k].size[2]
        /\ options.orientation = "portrait" => Sheets[k].size[1] < Sheets[k].size[2]

\* two landscape A3 sheets
C13_Witness ==
    /\ Len(Sheets) >= 2
    /\ options.paper = "A3"
    /\ options.orientation = "landscape"

\* the cell of a draw
CellLeft(p) == XCellX(p[2] % XCols)

CellBottom(p) == XCellY(p[2] \div XCols)

CellRight(p) == RAdd(CellLeft(p), XCellW)

CellTop(p) == RAdd(CellBottom(p), XCellH)

SrcW(p) == RInt(DrawAt(p).page.width)

SrcH(p) == RInt(DrawAt(p).page.height)

\* C14: with a cell and a page of positive size, the drawn page is the page
\* scaled by min(cellW/pageW, cellH/pageH): it is no larger than the cell on
\* either axis, as large as the cell on at least one, and its rectangle lies
\* inside the cell.
C14_Fit ==
    \A p \in DrawPlaces :
        (PositiveCell /\ DrawAt(p).page.width > 0 /\ DrawAt(p).page.height > 0) =>
            LET d == DrawAt(p)
            IN  /\ RLe(d.width, XCellW)
                /\ RLe(d.height, XCellH)
                /\ d.width = XCellW \/ d.height = XCellH
                /\ RLt(Zero, d.width) /\ RLt(Zero, d.height)
                /\ RDiv(d.width, SrcW(p)) = RDiv(d.height, SrcH(p))
                /\ RLe(RDiv(d.width, SrcW(p)), RDiv(XCellW, SrcW(p)))
                /\ RLe(RDiv(d.width, SrcW(p)), RDiv(XCellH, SrcH(p)))
                /\ RLe(CellLeft(p), d.x)
                /\ RLe(RAdd(d.x, d.width), CellRight(p))
                /\ RLe(CellBottom(p), d.y)
                /\ RLe(RAdd(d.y, d.height), CellTop(p))

\* one page fills the height of its cell and not the width, another the
\* width and not the height
C14_Witness ==
    /\ Built
    /\ PositiveCell
    /\ \E p \in DrawPlaces : DrawAt(p).height = XCellH /\ RLt(DrawAt(p).width, XCellW)
    /\ \E p \in DrawPlaces : DrawAt(p).width = XCellW /\ RLt(DrawAt(p).height, XCellH)

\* C15: one scale for both axes: drawn width * page height = drawn height *
\* page width, for every drawn page of positive size.
C15_AspectRatio ==
    \A p \in DrawPlaces :
        (DrawAt(p).page.width > 0 /\ DrawAt(p).page.height > 0) =>
            RMul(DrawAt(p).width, SrcH(p)) = RMul(DrawAt(p).height, SrcW(p))

\* a page that is not square was drawn in a cell of another shape
C15_Witness ==
    /\ Built
    /\ \E p \in DrawPlaces :
          /\ DrawAt(p).page.width # DrawAt(p).page.height
          /\ RMul(XCellW, SrcH(p)) # RMul(XCellH, SrcW(p))

\* C16: the drawn page is centered in its cell: the space left of it equals
\* the space right of it, the space below it equals the space above it.
C16_Centered ==
    \A p \in DrawPlaces :
        LET d == DrawAt(p)
        IN  /\ RSub(d.x, CellLeft(p)) = RSub(CellRight(p), RAdd(d.x, d.width))
            /\ RSub(d.y, CellBottom(p)) = RSub(CellTop(p), RAdd(d.y, d.height))

\* a page narrower than its cell was drawn, with space on both sides
C16_Witness ==
    /\ Built
    /\ PositiveCell
    /\ \E p \in DrawPlaces : RLt(CellLeft(p), DrawAt(p).x)

\* every page that survived the flattening is on a sheet
AllPlaced == Cardinality(DrawPlaces) = Len(allPages)

\* the placement is over: the document is about to be saved, or was
Placed == Built /\ Flattened /\ Len(allPages) > 0 /\ pc \in {"save", "returned", "thrown", "responded"}

\* the engine stopped with an error other than the failure of the save
GeometryError == exception \notin {NoException, SaveError}

\* C17 as stated: with accepted options every surviving page is placed
\* without error, with a width and a height that are not negative.
C17_NonNegativeSize ==
    /\ ~GeometryError
    /\ Placed => AllPlaced
    /\ \A p \in DrawPlaces : RLe(Zero, DrawAt(p).width) /\ RLe(Zero, DrawAt(p).height)

\* margin 50 and gap 50 on a portrait A4 sheet with 4 columns: the cells
\* have a negative width and the pages were drawn
C17_Witness ==
    /\ Placed
    /\ AllPlaced
    /\ RLt(XCellW, Zero)
    /\ \E p \in DrawPlaces : RLt(DrawAt(p).width, Zero)

\* the eight cells of a sheet, by position
Eight(F(_)) == <<F(0), F(1), F(2), F(3), F(4), F(5), F(6), F(7)>>

\* C20: with margin >= 0, gap >= 0 and cells of positive size, every cell
\* lies within the sheet inset by the margin, and two distinct cells are
\* apart by at least the gap along an axis: they do not overlap.
C20_CellsOnSheet ==
    (Built /\ RLe(Zero, XMargin) /\ RLe(Zero, XGap) /\ PositiveCell) =>
        LET X(jj)  == CellX(options, jj)
            Y(jj)  == CellY(options, jj)
            cellW  == CellW(options)
            cellH  == CellH(options)
            left   == Eight(X)
            bottom == Eight(Y)
            right  == [n \in 1..8 |-> RAdd(left[n], cellW)]
            top    == [n \in 1..8 |-> RAdd(bottom[n], cellH)]
            innerR == RSub(RInt(XSheet[1]), XMargin)
            innerT == RSub(RInt(XSheet[2]), XMargin)
        IN  /\ \A n \in 1..8 :
                  /\ RLe(XMargin, left[n])
                  /\ RLe(right[n], innerR)
                  /\ RLe(XMargin, bottom[n])
                  /\ RLe(top[n], innerT)
            /\ \A n1 \in 1..8, n2 \in 1..8 :
                  n1 < n2 =>
                      \/ RLe(RAdd(right[n1], XGap), left[n2])
                      \/ RLe(RAdd(right[n2], XGap), left[n1])
                      \/ RLe(RAdd(top[n1], XGap), bottom[n2])
                      \/ RLe(RAdd(top[n2], XGap), bottom[n1])

\* a full sheet was drawn on cells of positive size with a gap of 10 mm
C20_Witness ==
    /\ Built
    /\ PositiveCell
    /\ options.gap_mm = 10
    /\ <<1, 7>> \in DrawPlaces

\* what the request must satisfy, read from the form as the handler reads it
RequestValid ==
    LET o == ParsedForm(form)
    IN  /\ o.paper \in {"A4", "A3"}
        /\ o.orientation \in {"landscape", "portrait"}
        /\ o.layout \in {"4x2", "2x4"}
        /\ ~o.marginMm.nan /\ 0 <= o.marginMm.value /\ o.marginMm.value <= 50
        /\ ~o.gapMm.nan /\ 0 <= o.gapMm.value /\ o.gapMm.value <= 50
        /\ 1 <= Len(inputs) /\ Len(inputs) <= 800
        /\ \A n \in 1..Len(inputs) : inputs[n].data.byteLength <= 100 * 1024 * 1024

\* the engine was called: its options exist or it left a trace
EngineCalled ==
    \/ Built
    \/ pos # 0 \/ bad # <<>> \/ allPages # <<>> \/ loaded # <<>>
    \/ out # NoDocument \/ result # NoResult \/ exception # NoException

\* C18: the POST handler calls impose8up only when the options and the files
\* pass the validation, and then with options that are valid; a request that
\* fails it is answered with status 400 and the engine is never called.
C18_ValidationFirst ==
    caller = "POST" =>
        /\ EngineCalled =>
              /\ RequestValid
              /\ options.paper \in {"A4", "A3"}
              /\ options.orientation \in {"landscape", "portrait"}
              /\ options.layout \in {"4x2", "2x4"}
              /\ options.margin_mm \in 0..50
              /\ options.gap_mm \in 0..50
        /\ ~RequestValid =>
              /\ ~EngineCalled
              /\ pc \in {"post", "responded"}
              /\ pc = "responded" => response.status = 400
        /\ response.status = 400 => ~EngineCalled

\* a request of 801 files was answered with status 400
C18_Witness ==
    /\ caller = "POST"
    /\ Len(inputs) = 801
    /\ pc = "responded"
    /\ response.status = 400
    /\ ~EngineCalled

\* C19: impose8up returns success = true exactly when an input was accepted;
\* a success has pdfBytes, total_pages = N >= 1 and sheets >= 1 and no
\* error; a failure has an error and no pdfBytes, total_pages or sheets;
\* both have bad_files and total_bad.
C19_ResultShape ==
    Returned =>
        LET N == PageTotal(inputs)
        IN  /\ result.success <=> (\E n \in 1..Len(inputs) : Acceptable(inputs[n]))
            /\ result.success <=> N >= 1
            /\ result.success =>
                  /\ DOMAIN result =
                        {"success", "pdfBytes", "total_pages", "sheets", "bad_files", "total_bad"}
                  /\ result.total_pages = N
                  /\ result.total_pages >= 1
                  /\ result.sheets >= 1
            /\ ~result.success =>
                  /\ DOMAIN result = {"success", "error", "bad_files", "total_bad"}
                  /\ result.error = NoValidPdfError /\ result.error # ""

\* the engine returned a failure after it rejected every input
C19_Witness ==
    /\ Returned
    /\ ~result.success
    /\ Len(inputs) >= 2
    /\ result.total_bad = Len(inputs)

(***************************************************************************)
(* Vocabulary of the page component.                                       *)
(***************************************************************************)
\* a file the list takes: typed as PDF, or named *.pdf
LooksPdf(f) == f.type = "application/pdf" \/ f.name.ext = ".pdf"

\* the files of the last selection or drop that the list takes
Offered == SelectSeq(event.given, LooksPdf)

\* the last handler was a selection or a drop
Adding == event.kind \in {"handleFileChange", "handleDrop"}

\* the length the list would have if the last selection or drop were taken
WouldBe ==
    IF version = "earlier" THEN Len(event.given) ELSE Len(event.before) + Len(Offered)

\* C21: the selected file list never holds more than 800 files; a selection
\* or a drop that would bring it above 800 leaves it as it was, any other
\* gives the list it would bring; the removal of index i takes out that
\* entry alone and keeps the others in their order; clear-all empties it.
C21_FileListBound ==
    /\ Len(ui.files) <= 800
    /\ (Adding /\ WouldBe > 800) => ui.files = event.before
    /\ (Adding /\ WouldBe <= 800 /\ version = "current" /\ Len(Offered) > 0) =>
            ui.files = event.before \o Offered
    /\ event.kind = "removeFile" =>
            /\ Len(ui.files) = Len(event.before) - 1
            /\ \A k \in 1..Len(ui.files) :
                  ui.files[k] = event.before[IF k <= event.index THEN k ELSE k + 1]
    /\ event.kind = "clearAll" => ui.files = <<>>

\* two PDF files were dropped on a list of 799 files, and the list kept its
\* 799 files
C21_Witness ==
    /\ event.kind = "handleDrop"
    /\ Len(event.before) = 799
    /\ Len(Offered) = 2
    /\ ui.files = event.before

\* the last handler ended a submission that got no ok response, or that
\* threw
EndedInFailure == event.kind \in {"fetchRejected", "jsonResolved", "jsonRejected", "blobRejected"}

\* a submission gave setStatus the values of a whole run
RanToEnd(n) ==
    \/ submissions[n].setStatus = <<"uploading", "processing", "done">>
    \/ submissions[n].setStatus = <<"uploading", "processing", "error">>

\* two requests are in flight: files were added while the first one was
\* awaited, which put the status back to idle and enabled the button
DoubleSubmission ==
    /\ Cardinality(InFlight) = 2
    /\ Len(event.before) < Len(ui.files) \/ event.kind = "handleSubmit"

\* the only submission ended in the catch block after the result info was
\* set: response.blob() rejected
ErrorWithResult ==
    /\ Len(submissions) = 1
    /\ event.kind = "blobRejected"
    /\ ui.status = "error"
    /\ ui.resultInfo # NoResultInfo

\* C22 as stated: a submission calls setStatus with uploading, processing
\* and at its end done or error; done and the result info come only after
\* an ok response; a response that is not ok and a thrown error leave the
\* status error and no result info; the button is disabled while the status
\* is uploading or processing, and at most one request is in flight.
C22_Lifecycle ==
    /\ \A n \in 1..Len(submissions) :
          /\ submissions[n].pc = "over" => RanToEnd(n)
          /\ submissions[n].pc # "over" => submissions[n].setStatus = <<"uploading", "processing">>
          /\ submissions[n].setStatus[Len(submissions[n].setStatus)] = "done" =>
                submissions[n].response.ok
    /\ ui.status = "done" => \E n \in 1..Len(submissions) : submissions[n].response.ok
    /\ ui.resultInfo # NoResultInfo =>
          \E n \in 1..Len(submissions) : submissions[n].response.ok
    /\ EndedInFailure => ui.status = "error" /\ ui.resultInfo = NoResultInfo
    /\ isProcessing => SubmitDisabled
    /\ Cardinality(InFlight) <= 1

====
